---- MODULE Spec2Model ----
(***************************************************************************)
(* A model of the football_rank repository: the MatchParser store          *)
(* (src/src/match_parser.py), the rating algorithms                        *)
(* (src/src/match_ranking.py), the league replay of the main window        *)
(* (src/src/main_window.py, src/src/match_data.py, src/src/team_manager.py)*)
(* the FetchWorker (src/src/fetch_worker.py) and the ingestion scheduler   *)
(* of spec.md section 4.6.                                                 *)
(***************************************************************************)
EXTENDS Integers, Sequences, FiniteSets, TLC

(***************************************************************************)
(* Bounds of the model.                                                    *)
(***************************************************************************)
\* largest external match id a payload carries (ids 0..MaxId; 0 is falsy in Python)
MaxId == 2
\* largest number of elements of a payload's "matches" array
MaxPayloadLen == 2
\* largest number of matches one run of the rating algorithms processes
MaxMatches == 2
\* largest number of goals of one side in a match
MaxGoals == 1
\* largest number of rows the matches table holds
MaxRows == 2
\* largest timestamp a row of the matches table carries
MaxDate == 1
\* number of batch windows of a scheduler run
NumWindows == 2
\* number of competitions of a batch window
NumCompetitions == 2
\* the bounded wait for a completion signal, in ticks of the clock
WaitLimit == 2
\* largest match count a team of the registry reaches
MaxCount == 1

VARIABLES
    conn,        \* MatchParser.conn is an open sqlite3 connection
    disk,        \* rows of table matches committed to the database file
    view,        \* rows of table matches as the open connection sees them
    last,        \* what the last MatchParser call did (observer's record)
    thePayload,  \* the payload a run repeats (SpecRepeat), else the empty list
    txn,         \* write transactions: of the open connection, of an abandoned one
    probe,       \* details of the last parse_and_store call (observer's record)
    eloTeams,    \* EloAlgorithm.teams: name -> rating, in insertion order
    osTeams,     \* OpenSkillAlgorithm.teams: name -> (mu, sigma), in insertion order
    matchLog,    \* the matches processed so far, in order
    shown,       \* a rating and what the windows last computed from it for display
    matchesTable, \* the rows of the matches table of the store, in rowid order
    tmTeams,     \* TeamManager._teams: name -> Team, in insertion order
    tmLast,      \* what the last TeamManager call did (observer's record)
    replay,      \* what the last league selection did
    imp,         \* what the last import_csv reported, and the dates as the files wrote them
    dm,          \* MatchDataManager: its connection, the table, its last query
    fw,          \* the FetchWorker of the request in flight
    sched        \* the ingestion scheduler: run state, position in its loop

parserVars == <<conn, disk, view, last, thePayload, txn, probe>>

rankVars == <<eloTeams, osTeams, matchLog, shown>>

replayVars == <<matchesTable, tmTeams, tmLast, replay, imp, dm>>

fetchVars == <<fw>>

schedVars == <<sched>>

vars == <<parserVars, rankVars, replayVars, fetchVars, schedVars>>

(***************************************************************************)
(* MatchParser: payloads.  A payload is the text handed to                 *)
(* parse_and_store, classified by what json.loads and data.get make of it. *)
(***************************************************************************)
Dates == {"2025-10-18T11:30:00Z", "2025-10-19T14:00:00Z"}

\* an element of the "matches" array that is a JSON object: its "id" (hasId:
\* present and not null), its "utcDate" ("" when missing or empty), and ver,
\* which stands for the rest of the object (teams, score)
Obj(hasId, id, utcDate, ver) ==
    [kind |-> "obj", hasId |-> hasId, id |-> id, utcDate |-> utcDate, ver |-> ver]

FirstDate == "2025-10-18T11:30:00Z"

\* an element of the array that is no object (a number, a string, null)
BadElement == [kind |-> "scalar", hasId |-> FALSE, id |-> 0, utcDate |-> "", ver |-> 1]

\* the elements the model draws from: every id with the first date, the id 1
\* with every date (the stored JSON of two of them differs in the date), an
\* object without id, with id 0, without date, and a scalar
Elements ==
    {Obj(TRUE, id, FirstDate, 1) : id \in 1..MaxId} \cup {Obj(TRUE, 1, d, 1) : d \in Dates}
        \cup {Obj(FALSE, 0, FirstDate, 1), Obj(TRUE, 0, FirstDate, 1),
              Obj(TRUE, 1, "", 1), BadElement}

SeqsUpTo(S, n) == UNION {[1..k -> S] : k \in 0..n}

ListPayloads == [kind : {"list"}, elems : SeqsUpTo(Elements, MaxPayloadLen)]

\* not JSON; JSON that is no object; an object without "matches"; "matches" no list
OtherPayloads == [kind : {"notjson", "nonobject", "nomatches", "matchesnotlist"}, elems : {<<>>}]

Payloads == ListPayloads \cup OtherPayloads

EmptyPayload == [kind |-> "list", elems |-> <<>>]

(***************************************************************************)
(* MatchParser: the matches table.  A table is the sequence of its rows in *)
(* insertion order; api_id is its INTEGER PRIMARY KEY.                     *)
(***************************************************************************)
Row(e) == [api_id |-> e.id, utc_date |-> e.utcDate, json_data |-> e]

HasId(tbl, id) == \E i \in DOMAIN tbl : tbl[i].api_id = id

\* INSERT OR REPLACE: the conflicting row is overwritten by the new one
InsertOrReplace(tbl, row) ==
    IF HasId(tbl, row.api_id)
    THEN [i \in DOMAIN tbl |-> IF tbl[i].api_id = row.api_id THEN row ELSE tbl[i]]
    ELSE Append(tbl, row)

\* INSERT INTO a table without the primary key: every row is appended
InsertAlways(tbl, row) == Append(tbl, row)

\* INSERT OR IGNORE INTO matches: a row whose api_id is stored is left alone
InsertOrIgnore(tbl, row) ==
    IF HasId(tbl, row.api_id) THEN tbl ELSE Append(tbl, row)

\* the for-loop of parse_and_store from element i on; stops at an element
\* that is no object (match.get raises AttributeError), and at an INSERT
\* while another connection holds the write lock (busy: OperationalError)
RECURSIVE Scan(_, _, _, _, _)
Scan(tbl, elems, i, acc, busy) ==
    IF i > Len(elems) THEN [tbl |-> tbl, raised |-> "none"] @@ acc
    ELSE LET e == elems[i] IN
         IF e.kind # "obj" THEN [tbl |-> tbl, raised |-> "AttributeError"] @@ acc
         ELSE IF ~e.hasId \/ e.id = 0 THEN Scan(tbl, elems, i + 1, acc, busy)
         ELSE IF e.utcDate = "" THEN Scan(tbl, elems, i + 1, acc, busy)
         ELSE IF busy THEN [tbl |-> tbl, raised |-> "OperationalError"] @@ acc
         ELSE LET new == InsertOrIgnore(tbl, Row(e))
                  hit == Len(new) > Len(tbl) \/ new # tbl
                  clash == ~hit /\ (\E k \in DOMAIN tbl :
                                      tbl[k].api_id = e.id /\ tbl[k] # Row(e))
              IN Scan(new, elems, i + 1,
                      [inserted |-> acc.inserted + (IF hit THEN 1 ELSE 0),
                       ignored |-> acc.ignored + (IF hit THEN 0 ELSE 1),
                       clash |-> acc.clash \/ clash], busy)

\* the record of a call: its outcome, the count it returned, how many elements
\* INSERT OR IGNORE left out (clash: one of them differed from the stored row),
\* the number of visible rows before it; rep counts the parse_and_store calls
\* in a row that were given thePayload, o1, c1 and b1 are the outcome of the
\* first of them, the count it returned and the number of rows before it
NoCall == [op |-> "none", outcome |-> "none", count |-> 0, ignored |-> 0,
           clash |-> FALSE, before |-> 0, rep |-> 0, o1 |-> "none", c1 |-> 0, b1 |-> 0]

Call(op, outcome, count, ignored, clash, before) ==
    [op |-> op, outcome |-> outcome, count |-> count, ignored |-> ignored,
     clash |-> clash, before |-> before, rep |-> 0, o1 |-> "none", c1 |-> 0, b1 |-> 0]

Track(call, p) ==
    IF p # thePayload THEN call
    ELSE IF last.op = "parse" /\ last.rep > 0
         THEN [call EXCEPT !.rep = 2, !.o1 = last.o1, !.c1 = last.c1, !.b1 = last.b1]
         ELSE [call EXCEPT !.rep = 1, !.o1 = call.outcome, !.c1 = call.count,
                           !.b1 = call.before]

\* writing: the open connection has written since its last commit and holds
\* the write lock; stale: a connection that connect() replaced while it was
\* writing still holds the lock, until it is collected
NoTxn == [writing |-> FALSE, stale |-> FALSE]

NoProbe == [on |-> FALSE, kind |-> "", dbefore |-> 0, eligible |-> 0, pk |-> ""]

InitParser ==
    /\ txn = NoTxn
    /\ probe = NoProbe
    /\ conn = FALSE
    /\ disk = <<>>
    /\ view = <<>>
    /\ last = NoCall
    /\ thePayload = EmptyPayload

\* MatchParser.connect: a new connection to the database file, the table
\* created if missing; a connection it replaces is not closed
Connect ==
    /\ conn' = TRUE
    /\ view' = disk
    /\ txn' = [writing |-> FALSE, stale |-> txn.stale \/ (conn /\ txn.writing)]
    /\ last' = Call("connect", "ok", 0, 0, FALSE, Len(view))
    /\ UNCHANGED <<disk, thePayload, probe, rankVars, replayVars, fetchVars, schedVars>>

\* a close that leaves self.conn set
CloseKeepsConn ==
    /\ last' = Call("close", "ok", 0, 0, FALSE, Len(view))
    /\ UNCHANGED <<conn, view, txn, disk, thePayload, probe, rankVars, replayVars, fetchVars,
                   schedVars>>

\* MatchParser.close: closing the connection drops what was not committed
Close ==
    /\ conn' = FALSE
    /\ view' = IF conn THEN disk ELSE view
    /\ txn' = [txn EXCEPT !.writing = FALSE]
    /\ last' = Call("close", "ok", 0, 0, FALSE, Len(view))
    /\ UNCHANGED <<disk, thePayload, probe, rankVars, replayVars, fetchVars, schedVars>>

\* the abandoned connection is collected and closed: its lock is released
Collect ==
    /\ txn.stale
    /\ txn' = [txn EXCEPT !.stale = FALSE]
    /\ UNCHANGED <<conn, disk, view, last, thePayload, probe, rankVars, replayVars,
                   fetchVars, schedVars>>

\* observer's count: the ids, not in the table, of the elements of a payload
\* that carry an integer id and a non-empty utcDate
Eligible(tbl, elems) ==
    Cardinality({elems[i].id : i \in {j \in DOMAIN elems :
                    /\ elems[j].kind = "obj" /\ elems[j].hasId /\ elems[j].utcDate # ""
                    /\ \A k \in DOMAIN tbl : tbl[k].api_id # elems[j].id}})

\* a failure that also undoes what earlier calls committed
RaiseRollsBackAll(r, before) ==
    [view |-> <<>>, disk |-> <<>>, txn |-> [txn EXCEPT !.writing = FALSE],
     call |-> Call("parse", r.raised, 0, r.ignored, r.clash, before)]

\* an exception leaves the loop of parse_and_store: nothing is committed and
\* nothing is rolled back, the rows inserted so far stay in the transaction
RaiseInLoop(r, before) ==
    [view |-> r.tbl, disk |-> disk,
     txn |-> [txn EXCEPT !.writing = @ \/ r.inserted + r.ignored > 0],
     call |-> Call("parse", r.raised, 0, r.ignored, r.clash, before)]

\* what parse_and_store(json_str) does to the table and what it returns or raises
ParseOutcome(p) ==
    LET before == Len(view)
        fail(kind) == [view |-> view, disk |-> disk, txn |-> txn,
                       call |-> Call("parse", kind, 0, 0, FALSE, before)]
    IN IF ~conn THEN fail("ValueError")
       ELSE IF p.kind \in {"notjson", "matchesnotlist"} THEN fail("ValueError")
       ELSE IF p.kind = "nonobject" THEN fail("AttributeError")
       ELSE LET r == Scan(view, p.elems, 1,
                          [inserted |-> 0, ignored |-> 0, clash |-> FALSE], txn.stale)
            IN IF r.raised # "none"
               THEN RaiseInLoop(r, before)
               ELSE [view |-> r.tbl, disk |-> r.tbl,
                     txn |-> [txn EXCEPT !.writing = FALSE],
                     call |-> Call("parse", "ok", r.inserted, r.ignored, r.clash, before)]

\* the kind of a payload: "valid" for an array of objects only
PayloadKind(p) ==
    IF p.kind = "list" /\ \A i \in DOMAIN p.elems : p.elems[i].kind = "obj"
    THEN "valid" ELSE p.kind

\* observer's record of a call, kept when the probe is on: the kind of its
\* payload, the committed rows before it, the count of its eligible elements,
\* and the kind of the payload of the call just before on the same connection
Probe(p) ==
    IF ~probe.on THEN probe
    ELSE [on |-> TRUE, kind |-> PayloadKind(p), dbefore |-> Len(disk),
          eligible |-> IF p.kind = "list" THEN Eligible(view, p.elems) ELSE 0,
          pk |-> IF last.op = "parse" /\ conn THEN probe.kind ELSE ""]

ParseResult(p) == ParseOutcome(p) @@ [probe |-> Probe(p)]

ParseAndStore(p) ==
    LET r == ParseResult(p)
    IN /\ view' = r.view
       /\ disk' = r.disk
       /\ txn' = r.txn
       /\ probe' = r.probe
       /\ last' = Track(r.call, p)
       /\ UNCHANGED <<conn, thePayload, rankVars, replayVars, fetchVars, schedVars>>

(***************************************************************************)
(* The rating algorithms.  A Python dict is the sequence of its items in   *)
(* insertion order.  Ratings are integers: an Elo rating in thousandths of *)
(* a point, mu and sigma in thousandths, an expected score in thousandths. *)
(***************************************************************************)
Teams == {"Arsenal", "Chelsea", "Liverpool"}

\* EloAlgorithm(initial_rating=1500, k_factor=30)
InitialRating == 1500
KFactor == 30
\* PlackettLuce().rating(): mu = 25.0, sigma = 25/3
InitialMu == 25000
InitialSigma == 8333

Names(d) == [i \in DOMAIN d |-> d[i].name]

HasKey(d, name) == \E i \in DOMAIN d : d[i].name = name

KeyIndex(d, name) == CHOOSE i \in DOMAIN d : d[i].name = name

\* d[name]
Lookup(d, name) == d[KeyIndex(d, name)]

\* d[name] = item, on a dict that moves an assigned key to the end
DictSetMoveToEnd(d, item) ==
    Append(SelectSeq(d, LAMBDA x : x.name # item.name), item)

\* d[name] = item: an existing key keeps its place, a new key goes last
DictSet(d, item) ==
    IF HasKey(d, item.name)
    THEN [i \in DOMAIN d |-> IF d[i].name = item.name THEN item ELSE d[i]]
    ELSE Append(d, item)

\* 1000 / (1 + 10 ** (d / 400)) for d = 0..400 points
LogisticTable == <<
    500, 499, 497, 496, 494, 493, 491, 490, 488, 487, 486, 484, 483, 481, 480, 478, 477, 476, 474, 473,
    471, 470, 468, 467, 466, 464, 463, 461, 460, 458, 457, 456, 454, 453, 451, 450, 448, 447, 446, 444,
    443, 441, 440, 438, 437, 436, 434, 433, 431, 430, 429, 427, 426, 424, 423, 422, 420, 419, 417, 416,
    415, 413, 412, 410, 409, 408, 406, 405, 403, 402, 401, 399, 398, 396, 395, 394, 392, 391, 390, 388,
    387, 385, 384, 383, 381, 380, 379, 377, 376, 375, 373, 372, 371, 369, 368, 367, 365, 364, 363, 361,
    360, 359, 357, 356, 355, 353, 352, 351, 349, 348, 347, 345, 344, 343, 342, 340, 339, 338, 336, 335,
    334, 333, 331, 330, 329, 327, 326, 325, 324, 322, 321, 320, 319, 317, 316, 315, 314, 312, 311, 310,
    309, 308, 306, 305, 304, 303, 301, 300, 299, 298, 297, 295, 294, 293, 292, 291, 289, 288, 287, 286,
    285, 284, 282, 281, 280, 279, 278, 277, 275, 274, 273, 272, 271, 270, 269, 267, 266, 265, 264, 263,
    262, 261, 260, 259, 257, 256, 255, 254, 253, 252, 251, 250, 249, 248, 247, 246, 244, 243, 242, 241,
    240, 239, 238, 237, 236, 235, 234, 233, 232, 231, 230, 229, 228, 227, 226, 225, 224, 223, 222, 221,
    220, 219, 218, 217, 216, 215, 214, 213, 212, 211, 210, 209, 208, 207, 206, 205, 204, 204, 203, 202,
    201, 200, 199, 198, 197, 196, 195, 194, 193, 193, 192, 191, 190, 189, 188, 187, 186, 186, 185, 184,
    183, 182, 181, 180, 180, 179, 178, 177, 176, 175, 174, 174, 173, 172, 171, 170, 170, 169, 168, 167,
    166, 166, 165, 164, 163, 162, 162, 161, 160, 159, 159, 158, 157, 156, 155, 155, 154, 153, 152, 152,
    151, 150, 150, 149, 148, 147, 147, 146, 145, 144, 144, 143, 142, 142, 141, 140, 140, 139, 138, 137,
    137, 136, 135, 135, 134, 133, 133, 132, 131, 131, 130, 129, 129, 128, 128, 127, 126, 126, 125, 124,
    124, 123, 123, 122, 121, 121, 120, 119, 119, 118, 118, 117, 116, 116, 115, 115, 114, 114, 113, 112,
    112, 111, 111, 110, 110, 109, 108, 108, 107, 107, 106, 106, 105, 105, 104, 104, 103, 102, 102, 101,
    101, 100, 100, 99, 99, 98, 98, 97, 97, 96, 96, 95, 95, 94, 94, 93, 93, 92, 92, 91,
    91 >>

\* EloAlgorithm.expected_result(rating_a, rating_b), in thousandths; the
\* difference of the ratings is taken in whole points
ExpectedResult(rating_a, rating_b) ==
    LET d == rating_b - rating_a
        pts(x) == IF x \div 1000 > 400 THEN 400 ELSE x \div 1000
    IN IF d >= 0 THEN LogisticTable[pts(d) + 1]
       ELSE 1000 - LogisticTable[pts(-d) + 1]

\* an update that never lowers a rating
UpdateEloGainOnly(rating, expected, actual) ==
    IF actual >= expected THEN rating + KFactor * (actual - expected) ELSE rating

\* update_elo with the sign of the correction reversed
UpdateEloReversed(rating, expected, actual) == rating - KFactor * (actual - expected)

\* EloAlgorithm.update_elo(rating, expected, actual)
UpdateElo(rating, expected, actual) == rating + KFactor * (actual - expected)

\* get_team_rating on ratings that live outside the instance: a team new to d
\* starts from the rating the running system holds for it
EloGetTeamRatingShared(d, name) ==
    IF HasKey(d, name) THEN d
    ELSE IF HasKey(eloTeams, name) THEN Append(d, Lookup(eloTeams, name))
    ELSE Append(d, [name |-> name, rating |-> InitialRating * 1000])

\* EloAlgorithm.get_team_rating(team_name): the dict after the call
EloGetTeamRating(d, name) ==
    IF HasKey(d, name) THEN d ELSE Append(d, [name |-> name, rating |-> InitialRating * 1000])

\* EloAlgorithm.process_match(home_team, away_team, home_score, away_score):
\* the dict after the call
EloProcessMatch(d, home, away, hs, as) ==
    LET d1 == EloGetTeamRating(d, home)
        d2 == EloGetTeamRating(d1, away)
        home_rating == Lookup(d1, home).rating
        away_rating == Lookup(d2, away).rating
        exp_home == ExpectedResult(home_rating, away_rating)
        exp_away == 1000 - exp_home
        actual_home == IF hs > as THEN 1000 ELSE IF hs < as THEN 0 ELSE 500
        actual_away == IF hs > as THEN 0 ELSE IF hs < as THEN 1000 ELSE 500
        new_home == UpdateElo(home_rating, exp_home, actual_home)
        new_away == UpdateElo(away_rating, exp_away, actual_away)
    IN DictSet(DictSet(d2, [name |-> home, rating |-> new_home]),
               [name |-> away, rating |-> new_away])

\* OpenSkillAlgorithm.get_team_rating(team_name): the dict after the call
OsGetTeamRating(d, name) ==
    IF HasKey(d, name) THEN d
    ELSE Append(d, [name |-> name, mu |-> InitialMu, sigma |-> InitialSigma])

\* PlackettLuce.rate([[a], [b]], ranks) of the openskill library, reduced to
\* integers: the better rank gains, the worse loses, in proportion to its
\* sigma and to the surprise of the result; equal ranks pull the two mu
\* together; every sigma shrinks.  Returns the two new ratings, in the order
\* they were given.
OsRate(first, second, ranks) ==
    LET share == ExpectedResult(first.mu * 13, second.mu * 13)
        a1 == IF ranks[1] < ranks[2] THEN 1000 ELSE IF ranks[1] > ranks[2] THEN 0 ELSE 500
        step(sigma, actual, expected) ==
            IF actual >= expected THEN (sigma * (actual - expected)) \div 1600
            ELSE -((sigma * (expected - actual)) \div 1600)
        shrink(sigma) == (sigma * 97) \div 100
    IN << [mu |-> first.mu + step(first.sigma, a1, share), sigma |-> shrink(first.sigma)],
          [mu |-> second.mu + step(second.sigma, 1000 - a1, 1000 - share),
           sigma |-> shrink(second.sigma)] >>

\* the ranks with the winner ranked 2
OsRanksWinnerLast(hs, as) ==
    IF hs > as THEN <<2, 1>> ELSE IF hs < as THEN <<1, 2>> ELSE <<1, 1>>

\* the ranks OpenSkillAlgorithm.process_match gives to the model, home first
OsRanks(hs, as) ==
    IF hs > as THEN <<1, 2>> ELSE IF hs < as THEN <<2, 1>> ELSE <<1, 1>>

\* OpenSkillAlgorithm.process_match(home_team, away_team, home_score, away_score):
\* the dict after the call
OsProcessMatch(d, home, away, hs, as) ==
    LET d1 == OsGetTeamRating(d, home)
        d2 == OsGetTeamRating(d1, away)
        home_rating == Lookup(d1, home)
        away_rating == Lookup(d2, away)
        ranks == OsRanks(hs, as)
        updated == OsRate(home_rating, away_rating, ranks)
    IN DictSet(DictSet(d2, [name |-> home, mu |-> updated[1].mu, sigma |-> updated[1].sigma]),
               [name |-> away, mu |-> updated[2].mu, sigma |-> updated[2].sigma])

\* x put into a list that is sorted by key descending, after the items of
\* equal key
InsertAfterEqual(sorted, x, key) ==
    LET n == Cardinality({i \in DOMAIN sorted : sorted[i][key] >= x[key]})
    IN SubSeq(sorted, 1, n) \o <<x>> \o SubSeq(sorted, n + 1, Len(sorted))

\* sorted(items, key=Key, reverse=True): a stable sort, the items taken in
\* their order
RECURSIVE SortedReverse(_, _, _)
SortedReverse(items, key, done) ==
    IF items = <<>> THEN done
    ELSE SortedReverse(Tail(items), key, InsertAfterEqual(done, Head(items), key))

EloKey == "rating"

OsKey == "mu"

\* EloAlgorithm.get_rankings()
EloGetRankings(d) == SortedReverse(d, EloKey, <<>>)

\* OpenSkillAlgorithm.get_rankings()
OsGetRankings(d) == SortedReverse(d, OsKey, <<>>)

\* EloAlgorithm().teams and OpenSkillAlgorithm().teams of a new instance
FreshTeams == <<>>

Match(home, away, hs, as) ==
    [home_team |-> home, away_team |-> away, home_score |-> hs, away_score |-> as]

\* the loop of MatchRankingSystem.process_all_matches over matches, from new
\* instances: the Elo dict after it
RECURSIVE EloProcessAll(_, _)
EloProcessAll(matches, d) ==
    IF matches = <<>> THEN d
    ELSE LET m == Head(matches)
         IN EloProcessAll(Tail(matches),
                EloProcessMatch(d, m.home_team, m.away_team, m.home_score, m.away_score))

\* the same loop: the OpenSkill dict after it
RECURSIVE OsProcessAll(_, _)
OsProcessAll(matches, d) ==
    IF matches = <<>> THEN d
    ELSE LET m == Head(matches)
         IN OsProcessAll(Tail(matches),
                OsProcessMatch(d, m.home_team, m.away_team, m.home_score, m.away_score))

\* no rating is on display
NoShown == [op |-> "none", mu |-> InitialMu, sigma |-> InitialSigma, score |-> 0,
            stability |-> 0, dialog |-> 0]

InitAlgorithms ==
    /\ eloTeams = FreshTeams
    /\ osTeams = FreshTeams
    /\ matchLog = <<>>

InitRank ==
    /\ InitAlgorithms
    /\ shown = NoShown

\* one turn of the loop of MatchRankingSystem.process_all_matches: the match
\* goes through both algorithms
RankMatch(home, away, hs, as) ==
    /\ Len(matchLog) < MaxMatches
    /\ eloTeams' = EloProcessMatch(eloTeams, home, away, hs, as)
    /\ osTeams' = OsProcessMatch(osTeams, home, away, hs, as)
    /\ matchLog' = Append(matchLog, Match(home, away, hs, as))
    /\ UNCHANGED shown
    /\ UNCHANGED <<parserVars, replayVars, fetchVars, schedVars>>

(***************************************************************************)
(* The league replay of the main window: the store's rows of one league go *)
(* through the team registry and both rating algorithms.  A date is an     *)
(* integer timestamp or NoDate (NULL), as sqlite_importer writes it.       *)
(***************************************************************************)
NoDate == -1

\* datetime.now(): later than every timestamp of the store
Now == MaxDate + 1

\* LEAGUE_MAP, its keys transliterated
LEAGUE_MAP == [yingchao |-> "E0", xijia |-> "SP1", dejia |-> "D1"]

get_league_code(league_name) == LEAGUE_MAP[league_name]

\* MatchDataManager.mock_data in list order; a Date string "2023-08-12" is
\* the number 20230812, which orders as the string does
MockRow(div, date, home, away, hg, ag) ==
    [Div |-> div, Date |-> date, HomeTeam |-> home, AwayTeam |-> away,
     FTHG |-> hg, FTAG |-> ag]

mock_data ==
    << MockRow("E0", 20230812, "Arsenal", "Crystal Palace", 2, 0),
       MockRow("E0", 20230813, "Chelsea", "Liverpool", 1, 2),
       MockRow("E0", 20230813, "Man City", "Burnley", 3, 0),
       MockRow("E0", 20230814, "Man United", "Wolves", 1, 0),
       MockRow("E0", 20230814, "Tottenham", "Brentford", 2, 2),
       MockRow("SP1", 20230811, "Barcelona", "Getafe", 4, 0),
       MockRow("SP1", 20230812, "Real Madrid", "Almeria", 2, 0) >>

Fixtures ==
    { [HomeTeam |-> "Arsenal", AwayTeam |-> "Chelsea", FTHG |-> 1, FTAG |-> 0],
      [HomeTeam |-> "Chelsea", AwayTeam |-> "Liverpool", FTHG |-> 0, FTAG |-> 0] }

\* the rows an import can write
Rows ==
    { [Div |-> div, Date |-> date, HomeTeam |-> f.HomeTeam, AwayTeam |-> f.AwayTeam,
       FTHG |-> f.FTHG, FTAG |-> f.FTAG] :
         div \in {"E0", "D1"}, date \in {NoDate} \cup 0..MaxDate, f \in Fixtures }

\* UNIQUE(Div, Date, HomeTeam, AwayTeam) ON CONFLICT IGNORE; NULL dates never
\* conflict
Conflicts(tbl, row) ==
    /\ row.Date # NoDate
    /\ \E i \in DOMAIN tbl :
          /\ tbl[i].Div = row.Div /\ tbl[i].Date = row.Date
          /\ tbl[i].HomeTeam = row.HomeTeam /\ tbl[i].AwayTeam = row.AwayTeam

\* x put into a list sorted by Date ascending, NULL first, after the rows of
\* equal Date
InsertByDate(sorted, x) ==
    LET n == Cardinality({i \in DOMAIN sorted : sorted[i].Date <= x.Date})
    IN SubSeq(sorted, 1, n) \o <<x>> \o SubSeq(sorted, n + 1, Len(sorted))

\* ORDER BY Date ASC
RECURSIVE OrderByDate(_, _)
OrderByDate(rows, done) ==
    IF rows = <<>> THEN done
    ELSE OrderByDate(Tail(rows), InsertByDate(done, Head(rows)))

\* limit=None
NoLimit == -1

\* filters: a dict from column names to values; None and {} are the empty one
NoFilters == [k \in {} |-> ""]

Meets(row, filters) == \A k \in DOMAIN filters : row[k] = filters[k]

Prefix(rows, n) == SubSeq(rows, 1, IF n < Len(rows) THEN n ELSE Len(rows))

\* the loop of _filter_mock_data over mock_data: a row that passes the
\* filters is appended, then len(filtered_matches) >= limit is evaluated,
\* which raises TypeError when limit is None
RECURSIVE MockLoop(_, _, _, _)
MockLoop(rows, filters, limit, acc) ==
    IF rows = <<>> THEN [raised |-> FALSE, rows |-> acc]
    ELSE IF ~Meets(Head(rows), filters) THEN MockLoop(Tail(rows), filters, limit, acc)
    ELSE IF limit = NoLimit THEN [raised |-> TRUE, rows |-> <<>>]
    ELSE IF Len(acc) + 1 >= limit
         THEN [raised |-> FALSE, rows |-> Append(acc, Head(rows))]
    ELSE MockLoop(Tail(rows), filters, limit, Append(acc, Head(rows)))

\* MatchDataManager._filter_mock_data(filters, limit): without filters the
\* slice mock_data[:limit], else the loop; then the sort by Date
FilterMockData(filters, limit) ==
    LET got == IF DOMAIN filters = {}
               THEN [raised |-> FALSE,
                     rows |-> IF limit = NoLimit THEN mock_data
                              ELSE Prefix(mock_data, limit)]
               ELSE MockLoop(mock_data, filters, limit, <<>>)
    IN [raised |-> got.raised, rows |-> OrderByDate(got.rows, <<>>), source |-> "mock"]

\* SELECT * FROM matches WHERE ... ORDER BY Date ASC LIMIT n
Select(filters, limit) ==
    LET found == OrderByDate(SelectSeq(matchesTable, LAMBDA r : Meets(r, filters)), <<>>)
    IN IF limit = NoLimit THEN found ELSE Prefix(found, limit)

\* MatchDataManager.get_matches(filters, limit): the query on an open
\* connection; no connection, a failing query, an empty result and a failing
\* matches.sort (two rows or more, one with a NULL Date) go to the mock data
GetMatches(filters, limit) ==
    LET found == Select(filters, limit)
        sortRaises == Len(found) >= 2 /\ \E i \in DOMAIN found : found[i].Date = NoDate
    IN IF ~dm.connected \/ ~dm.hasTable THEN FilterMockData(filters, limit)
       ELSE IF found = <<>> THEN FilterMockData(filters, limit)
       ELSE IF sortRaises THEN FilterMockData(filters, limit)
       ELSE [raised |-> FALSE, rows |-> found, source |-> "store"]

\* the parameters of TeamManager.create_team
CreateTeamParams == {"name", "elo", "mu", "sigma"}

\* keyword arguments of a call: a function from their names to their values
NoKwargs == [k \in {} |-> 0]

Kwarg(kwargs, k, default) == IF k \in DOMAIN kwargs THEN kwargs[k] ELSE default

\* Team(name, elo, mu, sigma): league is not passed and stays None
NewTeam(name, elo, mu, sigma) ==
    [name |-> name, elo |-> elo, mu |-> mu, sigma |-> sigma, match_count |-> 0,
     league |-> "None", match_info |-> <<>>]

\* TeamManager.create_team(name, **kwargs): the registry after the call and
\* the second element of the returned pair, or the TypeError of a keyword
\* that is no parameter
CreateTeam(tm, name, kwargs) ==
    IF ~(DOMAIN kwargs \subseteq CreateTeamParams)
    THEN [raised |-> TRUE, is_new |-> FALSE, teams |-> tm]
    ELSE IF HasKey(tm, name) THEN [raised |-> FALSE, is_new |-> FALSE, teams |-> tm]
    ELSE [raised |-> FALSE, is_new |-> TRUE,
          teams |-> Append(tm, NewTeam(name, Kwarg(kwargs, "elo", InitialRating),
                                       Kwarg(kwargs, "mu", InitialMu),
                                       Kwarg(kwargs, "sigma", InitialSigma)))]

\* an increment that counts for every team of the registry
IncrementEveryTeam(tm, name) ==
    [i \in DOMAIN tm |-> [tm[i] EXCEPT !.match_count = @ + 1]]

\* TeamManager.increment_match_count(name)
IncrementMatchCount(tm, name) ==
    [i \in DOMAIN tm |->
        IF tm[i].name = name THEN [tm[i] EXCEPT !.match_count = @ + 1] ELSE tm[i]]

\* MatchInfo(match_id, mu, elo, sigma, match_date)
MatchInfo(match_id, mu, elo, sigma, match_date) ==
    [match_id |-> match_id, mu |-> mu, elo |-> elo, sigma |-> sigma,
     match_date |-> match_date]

\* Team.add_match_info(match_info) of the team called name
AddMatchInfo(tm, name, match_info) ==
    [i \in DOMAIN tm |->
        IF tm[i].name = name THEN [tm[i] EXCEPT !.match_info = Append(@, match_info)]
        ELSE tm[i]]

\* int(match.get("id", 0)): the id column of a stored row, 0 for a mock row
RowId(m) == IF "id" \in DOMAIN m THEN m.id ELSE 0

\* Team.update_rating(new_elo, new_mu, new_sigma) of the team called name
UpdateRating(tm, name, new_elo, new_mu, new_sigma) ==
    [i \in DOMAIN tm |->
        IF tm[i].name = name
        THEN [tm[i] EXCEPT !.elo = new_elo, !.mu = new_mu, !.sigma = new_sigma]
        ELSE tm[i]]

\* the match_date of a row: a false Date (NULL or 0) gives the current time
MatchDate(date) == IF date = NoDate \/ date = 0 THEN Now ELSE date

\* the loop over the matches of _load_and_process_data; an exception ends it
RECURSIVE ProcessRows(_, _)
ProcessRows(rows, st) ==
    IF rows = <<>> \/ st.raised THEN st
    ELSE LET m == Head(rows)
             c1 == CreateTeam(st.tm, m.HomeTeam, [k \in {"league"} |-> st.league])
             c2 == CreateTeam(c1.teams, m.AwayTeam, [k \in {"league"} |-> st.league])
             counted == IncrementMatchCount(IncrementMatchCount(c2.teams, m.HomeTeam),
                                            m.AwayTeam)
             match_date == MatchDate(m.Date)
             elo == EloProcessMatch(st.elo, m.HomeTeam, m.AwayTeam, m.FTHG, m.FTAG)
             os == OsProcessMatch(st.os, m.HomeTeam, m.AwayTeam, m.FTHG, m.FTAG)
             rated(tm, name) == UpdateRating(tm, name, Lookup(elo, name).rating,
                                             Lookup(os, name).mu, Lookup(os, name).sigma)
             info(name) == MatchInfo(RowId(m), Lookup(os, name).mu, Lookup(elo, name).rating,
                                     Lookup(os, name).sigma, match_date)
             home_done == AddMatchInfo(rated(counted, m.HomeTeam), m.HomeTeam,
                                       info(m.HomeTeam))
         IN IF c1.raised \/ c2.raised THEN [st EXCEPT !.raised = TRUE]
            ELSE ProcessRows(Tail(rows),
                   [raised |-> FALSE, league |-> st.league,
                    tm |-> AddMatchInfo(rated(home_done, m.AwayTeam), m.AwayTeam,
                                        info(m.AwayTeam)),
                    elo |-> elo,
                    os |-> os,
                    log |-> Append(st.log, Match(m.HomeTeam, m.AwayTeam, m.FTHG, m.FTAG)),
                    applied |-> Append(st.applied, m.Date)])

\* what a league selection did: the rows get_matches gave it (fetched) and
\* the dates of the rows that went through the loop (applied)
NoReplay == [op |-> "none", div |-> "", outcome |-> "none", fetched |-> <<>>,
             applied |-> <<>>]

NoQuery == [op |-> "none", filters |-> NoFilters, limit |-> NoLimit, raised |-> FALSE,
            rows |-> <<>>, source |-> "none"]

\* no TeamManager call was made
NoTmCall == [op |-> "none", name |-> "", keys |-> {}, league |-> "None",
             raised |-> FALSE, result |-> FALSE, before |-> <<>>]

\* no import_csv call was made
NoImport == [op |-> "none", file |-> <<>>, before |-> <<>>, success |-> FALSE, total_rows |-> 0,
             imported_rows |-> 0, skipped_rows |-> 0, written |-> <<>>]

\* MatchDataManager.__init__ with _connect succeeding on a database that has
\* the matches table
InitReplay ==
    /\ matchesTable = <<>>
    /\ tmTeams = <<>>
    /\ tmLast = NoTmCall
    /\ replay = NoReplay
    /\ imp = NoImport
    /\ dm = [connected |-> TRUE, hasTable |-> TRUE, query |-> NoQuery]

\* sqlite_importer writes one row of a CSV file; id INTEGER PRIMARY KEY
\* AUTOINCREMENT numbers the rows that are stored
ImportRow(row) ==
    /\ Len(matchesTable) < MaxRows
    /\ matchesTable' = IF Conflicts(matchesTable, row) THEN matchesTable
                       ELSE Append(matchesTable,
                                   [id |-> Len(matchesTable) + 1] @@ row)
    /\ dm' = [dm EXCEPT !.hasTable = TRUE]
    /\ UNCHANGED <<tmTeams, tmLast, replay, imp, parserVars, rankVars, fetchVars, schedVars>>

\* TeamManager.clear_all_teams
ClearAllTeams(tm) == <<>>

\* on_league_changed with a league selected: the registry is cleared, both
\* algorithms are made new, and _load_and_process_data(league_name) runs; an
\* exception in it is caught and printed
OnLeagueChanged(league_name) ==
    LET div == get_league_code(league_name)
        got == GetMatches([Div |-> div], NoLimit)
        start == [raised |-> FALSE, league |-> div, tm |-> ClearAllTeams(tmTeams),
                  elo |-> FreshTeams, os |-> FreshTeams, log |-> <<>>, applied |-> <<>>]
        end == IF got.raised THEN [start EXCEPT !.raised = TRUE]
               ELSE ProcessRows(got.rows, start)
    IN /\ tmTeams' = end.tm
       /\ eloTeams' = end.elo
       /\ osTeams' = end.os
       /\ matchLog' = end.log
       /\ UNCHANGED shown
       /\ replay' = [op |-> "league", div |-> div,
                     outcome |-> IF end.raised THEN "error" ELSE "ok",
                     fetched |-> got.rows, applied |-> end.applied]
       /\ UNCHANGED <<matchesTable, tmLast, imp, dm, parserVars, fetchVars, schedVars>>

\* a TeamManager call on the registry: what it is given, whether it raised,
\* what it returned (is_new, or success), and the registry before it
TmCall(op, name, kwargs, raised, result) ==
    [op |-> op, name |-> name, keys |-> DOMAIN kwargs,
     league |-> Kwarg(kwargs, "league", "None"), raised |-> raised, result |-> result,
     before |-> tmTeams]

\* TeamManager.create_team(name, **kwargs)
CreateTeamCall(name, kwargs) ==
    LET r == CreateTeam(tmTeams, name, kwargs)
    IN /\ tmTeams' = r.teams
       /\ tmLast' = TmCall("create_team", name, kwargs, r.raised, r.is_new)
       /\ UNCHANGED <<matchesTable, replay, imp, dm, parserVars, rankVars, fetchVars, schedVars>>

\* TeamManager.delete_team(name)
DeleteTeam(name) ==
    /\ tmTeams' = SelectSeq(tmTeams, LAMBDA t : t.name # name)
    /\ tmLast' = TmCall("delete_team", name, NoKwargs, FALSE, HasKey(tmTeams, name))
    /\ UNCHANGED <<matchesTable, replay, imp, dm, parserVars, rankVars, fetchVars, schedVars>>

\* TeamManager.clear_all_teams()
ClearAllTeamsCall ==
    /\ tmTeams' = ClearAllTeams(tmTeams)
    /\ tmLast' = TmCall("clear_all_teams", "", NoKwargs, FALSE, TRUE)
    /\ UNCHANGED <<matchesTable, replay, imp, dm, parserVars, rankVars, fetchVars, schedVars>>

\* TeamManager.increment_match_count(name)
IncrementMatchCountCall(name) ==
    /\ HasKey(tmTeams, name) => Lookup(tmTeams, name).match_count < MaxCount
    /\ tmTeams' = IncrementMatchCount(tmTeams, name)
    /\ tmLast' = TmCall("increment_match_count", name, NoKwargs, FALSE,
                        HasKey(tmTeams, name))
    /\ UNCHANGED <<matchesTable, replay, imp, dm, parserVars, rankVars, fetchVars, schedVars>>

\* get_team(name).add_match_info(MatchInfo(...)) with the team's ratings and
\* the current time
AddMatchInfoCall(name, match_id) ==
    /\ HasKey(tmTeams, name)
    /\ Len(Lookup(tmTeams, name).match_info) < MaxCount
    /\ LET t == Lookup(tmTeams, name)
       IN tmTeams' = AddMatchInfo(tmTeams, name,
                                  MatchInfo(match_id, t.mu, t.elo, t.sigma, Now))
    /\ tmLast' = TmCall("add_match_info", name, NoKwargs, FALSE, TRUE)
    /\ UNCHANGED <<matchesTable, replay, imp, dm, parserVars, rankVars, fetchVars, schedVars>>

\* a caller of get_team(name).get_match_info() changes the list it got: the
\* list is a copy of Team.match_info
ChangeReturnedList(name) ==
    /\ HasKey(tmTeams, name)
    /\ tmLast' = TmCall("get_match_info, list changed", name, NoKwargs, FALSE, TRUE)
    /\ UNCHANGED <<matchesTable, tmTeams, replay, imp, dm, parserVars, rankVars, fetchVars,
                   schedVars>>

\* a caller of get_team(name).get_match_info() assigns to the elo attribute
\* of element k of the list: the elements are the MatchInfo objects of
\* Team.match_info themselves
ChangeReturnedElement(name, k, elo) ==
    /\ HasKey(tmTeams, name)
    /\ k \in DOMAIN Lookup(tmTeams, name).match_info
    /\ tmTeams' = [i \in DOMAIN tmTeams |->
                     IF tmTeams[i].name = name
                     THEN [tmTeams[i] EXCEPT !.match_info[k].elo = elo]
                     ELSE tmTeams[i]]
    /\ tmLast' = TmCall("get_match_info, element changed", name, NoKwargs, FALSE, TRUE)
    /\ UNCHANGED <<matchesTable, replay, imp, dm, parserVars, rankVars, fetchVars, schedVars>>

\* TeamManager.update_team_rating(name, new_elo)
UpdateTeamRating(name, new_elo) ==
    /\ tmTeams' = [i \in DOMAIN tmTeams |->
                     IF tmTeams[i].name = name THEN [tmTeams[i] EXCEPT !.elo = new_elo]
                     ELSE tmTeams[i]]
    /\ tmLast' = TmCall("update_team_rating", name, NoKwargs, FALSE,
                        HasKey(tmTeams, name))
    /\ UNCHANGED <<matchesTable, replay, imp, dm, parserVars, rankVars, fetchVars, schedVars>>

\* TeamManager.get_teams_by_league(league_name): the class defines no such
\* method, the call raises AttributeError
GetTeamsByLeague(league_name) ==
    /\ tmLast' = TmCall("get_teams_by_league", league_name, NoKwargs, TRUE, FALSE)
    /\ UNCHANGED <<matchesTable, tmTeams, replay, imp, dm, parserVars, rankVars, fetchVars,
                   schedVars>>

\* one call of get_matches(filters, limit) and what it gives back
GetMatchesCall(filters, limit) ==
    LET got == GetMatches(filters, limit)
    IN /\ dm' = [dm EXCEPT !.query = [op |-> "get_matches", filters |-> filters,
                                      limit |-> limit, raised |-> got.raised,
                                      rows |-> got.rows, source |-> got.source]]
       /\ UNCHANGED <<matchesTable, tmTeams, tmLast, replay, imp, parserVars, rankVars, fetchVars,
                      schedVars>>

(***************************************************************************)
(* The FetchWorker: one GET through a session whose adapter retries.  An   *)
(* outcome is what one HTTP attempt meets: a response, or a failure to     *)
(* connect.  An absent response header is the empty string.                *)
(***************************************************************************)
\* Retry(total=3, status_forcelist=[429, 500, 502, 503, 504])
RetryTotal == 3
StatusForcelist == {429, 500, 502, 503, 504}

\* the default of response.headers.get(..., "未知")
Placeholder == "unknown"

NoOutcome == [kind |-> "none", status |-> 0, body |-> "", remaining |-> "", reset |-> ""]

Response(status, body, remaining, reset) ==
    [kind |-> "response", status |-> status, body |-> body, remaining |-> remaining,
     reset |-> reset]

Failure(kind) == [kind |-> kind, status |-> 0, body |-> "", remaining |-> "", reset |-> ""]

Outcomes ==
    {Response(200, body, "", "") : body \in {"dict", "list", "notjson"}}
        \cup {Response(status, "", "", "") : status \in {403, 404, 503}}
        \cup {Response(429, "", remaining, reset) : remaining \in {"", "0"}, reset \in {"", "30"}}
        \cup {Failure("connect_timeout"), Failure("connection_error")}

\* a retry policy that takes every error status for a transient one
RetryAnyError(out) ==
    \/ out.kind \in {"connect_timeout", "connection_error"}
    \/ out.kind = "response" /\ out.status >= 400

\* urllib3 Retry: a failed connection or read, or a response whose status is
\* in status_forcelist, asks for another attempt
ShouldRetry(out) ==
    \/ out.kind \in {"connect_timeout", "connection_error"}
    \/ out.kind = "response" /\ out.status \in StatusForcelist

Signal(sig, kind, remaining, reset) ==
    [sig |-> sig, kind |-> kind, remaining |-> remaining, reset |-> reset]

ErrorSignal(kind) == Signal("error", kind, "", "")

FinishedSignal == Signal("finished", "", "", "")

HeaderOr(value) == IF value = "" THEN Placeholder ELSE value

\* FetchWorker.run after session.get has returned a response: the signal it
\* emits before finished
HandleResponse(out) ==
    IF out.status = 403 THEN ErrorSignal("permission")
    ELSE IF out.status = 429
    THEN Signal("error", "rate_limit", HeaderOr(out.remaining), HeaderOr(out.reset))
    ELSE IF out.status >= 400 THEN ErrorSignal("http")
    ELSE IF out.body = "notjson" THEN ErrorSignal("json")
    ELSE IF out.body # "dict" THEN ErrorSignal("unknown")
    ELSE Signal("data", "", "", "")

\* a run that emits data whatever session.get has raised
ReportAsData(out) == Signal("data", "", "", "")

\* FetchWorker.run after session.get has raised with the retries used up: a
\* connect timeout is a requests.Timeout, a run of retried statuses a
\* RetryError (a RequestException), anything else a ConnectionError
HandleException(out) ==
    IF out.kind = "connect_timeout" THEN ErrorSignal("timeout")
    ELSE IF out.kind = "response" THEN ErrorSignal("request_failed")
    ELSE ErrorSignal("connection")

\* a run whose finished signal comes before its data or error signal
FinishedFirst(first) == <<FinishedSignal, first>>

\* the signals of one run: the one its try block or its except clause emits,
\* then finished from the finally clause
Emitted(first) == <<first, FinishedSignal>>

IdleWorker ==
    [pc |-> "idle", attempts |-> 0, retry |-> RetryTotal, lastOut |-> NoOutcome,
     cause |-> NoOutcome, only429 |-> TRUE, exhausted |-> FALSE, signals |-> <<>>]

\* FetchWorker(url, params, headers) and the start of run
NewWorker == [IdleWorker EXCEPT !.pc = "running"]

\* one HTTP attempt of session.get that meets out, and, when it is the last
\* one, the rest of run
AttemptResult(w, out) ==
    LET made == [w EXCEPT !.attempts = @ + 1, !.lastOut = out, !.cause = w.lastOut,
                          !.only429 = @ /\ out.kind = "response" /\ out.status = 429]
    IN IF ShouldRetry(out)
       THEN IF w.retry - 1 < 0
            THEN [made EXCEPT !.pc = "finished", !.retry = w.retry - 1, !.exhausted = TRUE,
                              !.signals = Emitted(HandleException(out))]
            ELSE [made EXCEPT !.retry = w.retry - 1]
       ELSE [made EXCEPT !.pc = "finished",
                         !.signals = Emitted(HandleResponse(out))]

InitFetch == fw = IdleWorker

\* a FetchWorker is made and its run begins
FetchStart ==
    /\ fw.pc # "running"
    /\ fw' = NewWorker
    /\ UNCHANGED <<parserVars, rankVars, replayVars, schedVars>>

\* the running worker makes one HTTP attempt
FetchAttempt(out) ==
    /\ fw.pc = "running"
    /\ fw' = AttemptResult(fw, out)
    /\ UNCHANGED <<parserVars, rankVars, replayVars, schedVars>>

(***************************************************************************)
(* The ingestion scheduler: batch windows in turn, the competitions of a   *)
(* window one after the other, each fetched by a FetchWorker and awaited   *)
(* for a bounded time; the data of a fetch goes to the MatchParser.        *)
(***************************************************************************)
\* what a feed answers during a scheduler run
SchedOutcomes == {Response(200, "dict", "", ""), Response(403, "", "", ""),
                  Response(429, "", "0", "30")}

\* the body of a successful fetch
SchedPayload == [kind |-> "list", elems |-> <<Obj(TRUE, 1, FirstDate, 1)>>]

IdleScheduler ==
    [state |-> "Idle", pos |-> "none", window |-> 1, comp |-> 1, status |-> "none",
     waited |-> 0, stopFlag |-> FALSE, stoppedAt |-> "none", resources |-> FALSE,
     attempted |-> 0, windowsStarted |-> 0, nTimedOut |-> 0, fatal |-> {}, progress |-> 0]

InitSched == sched = IdleScheduler

\* the wait that began waited ticks ago has used up its time one tick early
WaitExpiresEarly(waited) == waited >= WaitLimit - 1

\* the wait that began waited ticks ago has used up its time
WaitExpired(waited) == waited >= WaitLimit

\* the stop flag, never looked at
StopIgnored(s) == FALSE

\* the cooperative flag, as read at the top of an iteration
StopRequested(s) == s.stopFlag

\* the run ends: terminal state, batch-scoped resources released
Terminal(s, state) == [s EXCEPT !.state = state, !.pos = "none", !.resources = FALSE]

\* a fetch that ended with an error: the competition is Errored, the run goes on
OnFetchError(s, kind) ==
    [s EXCEPT !.status = "Errored", !.pos = "delay", !.fatal = @ \cup {kind}]

\* start(): Idle -> Running; the store connection is opened for the run
SchedStart ==
    /\ sched.state = "Idle"
    /\ sched' = [sched EXCEPT !.state = "Running", !.pos = "window_top", !.resources = TRUE]
    /\ conn' = TRUE
    /\ view' = disk
    /\ txn' = [writing |-> FALSE, stale |-> txn.stale \/ (conn /\ txn.writing)]
    /\ last' = Call("connect", "ok", 0, 0, FALSE, Len(view))
    /\ UNCHANGED <<disk, thePayload, probe, rankVars, replayVars, fetchVars>>

\* stop(): sets the cooperative flag
SchedStop ==
    /\ sched.state = "Running"
    /\ ~sched.stopFlag
    /\ sched' = [sched EXCEPT !.stopFlag = TRUE, !.stoppedAt = sched.pos]
    /\ UNCHANGED <<parserVars, rankVars, replayVars, fetchVars>>

\* the run reaches a terminal state and closes what it opened
SchedEnd(state) ==
    /\ sched' = Terminal(sched, state)
    /\ conn' = FALSE
    /\ view' = IF conn THEN disk ELSE view
    /\ txn' = [txn EXCEPT !.writing = FALSE]
    /\ last' = Call("close", "ok", 0, 0, FALSE, Len(view))
    /\ UNCHANGED <<disk, thePayload, probe, rankVars, replayVars, fetchVars>>

\* top of a window iteration
WindowTop ==
    /\ sched.state = "Running" /\ sched.pos = "window_top"
    /\ IF StopRequested(sched) THEN SchedEnd("Stopped")
       ELSE IF sched.window > NumWindows THEN SchedEnd("AllDone")
       ELSE /\ sched' = [sched EXCEPT !.pos = "comp_top", !.comp = 1,
                                      !.windowsStarted = @ + 1]
            /\ UNCHANGED <<parserVars, rankVars, replayVars, fetchVars>>

\* top of a competition iteration: after the last competition the batch is
\* done, else the competition is Requesting and its fetch is dispatched
CompTop ==
    /\ sched.state = "Running" /\ sched.pos = "comp_top"
    /\ IF StopRequested(sched) THEN SchedEnd("Stopped")
       ELSE IF sched.comp > NumCompetitions
       THEN /\ sched' = [sched EXCEPT !.pos = "window_top", !.window = @ + 1]
            /\ UNCHANGED <<parserVars, rankVars, replayVars, fetchVars>>
       ELSE /\ sched' = [sched EXCEPT !.pos = "requesting", !.status = "Requesting",
                                      !.attempted = @ + 1]
            /\ fw' = NewWorker
            /\ UNCHANGED <<parserVars, rankVars, replayVars>>

\* Requesting -> Waiting: the bounded wait for the completion signal begins
BeginWait ==
    /\ sched.state = "Running" /\ sched.pos = "requesting"
    /\ sched' = [sched EXCEPT !.pos = "waiting", !.status = "Waiting", !.waited = 0]
    /\ UNCHANGED <<parserVars, rankVars, replayVars, fetchVars>>

\* the clock advances during a wait that no signal has ended
Tick ==
    /\ sched.state = "Running" /\ sched.pos = "waiting"
    /\ fw.pc = "running"
    /\ ~WaitExpired(sched.waited)
    /\ sched.waited < WaitLimit
    /\ sched' = [sched EXCEPT !.waited = @ + 1]
    /\ UNCHANGED <<parserVars, rankVars, replayVars, fetchVars>>

\* the wait expires before a signal: TimedOut; the fetch is left to itself
Timeout ==
    /\ sched.state = "Running" /\ sched.pos = "waiting"
    /\ fw.pc = "running"
    /\ WaitExpired(sched.waited)
    /\ sched' = [sched EXCEPT !.status = "TimedOut", !.pos = "delay", !.nTimedOut = @ + 1]
    /\ UNCHANGED <<parserVars, rankVars, replayVars, fetchVars>>

\* the completion signal ends the wait: data goes to the MatchParser and the
\* inserted count is the progress; an error marks the competition Errored
FetchDone ==
    /\ sched.state = "Running" /\ sched.pos = "waiting"
    /\ fw.pc = "finished"
    /\ IF fw.signals[1].sig = "data"
       THEN LET r == ParseResult(SchedPayload)
            IN /\ view' = r.view
               /\ disk' = r.disk
               /\ txn' = r.txn
               /\ probe' = r.probe
               /\ last' = r.call
               /\ sched' = IF r.call.outcome = "ok"
                           THEN [sched EXCEPT !.status = "Completed", !.pos = "delay",
                                              !.progress = r.call.count]
                           ELSE OnFetchError(sched, "other")
               /\ UNCHANGED <<conn, thePayload>>
       ELSE /\ sched' = OnFetchError(sched, fw.signals[1].kind)
            /\ UNCHANGED parserVars
    /\ UNCHANGED <<rankVars, replayVars, fetchVars>>

\* the fixed delay between two competitions
Delay ==
    /\ sched.state = "Running" /\ sched.pos = "delay"
    /\ sched' = [sched EXCEPT !.pos = "comp_top", !.comp = @ + 1]
    /\ UNCHANGED <<parserVars, rankVars, replayVars, fetchVars>>

(***************************************************************************)
(* Specifications of the MatchParser store.                                *)
(***************************************************************************)
Init == InitParser /\ InitRank /\ InitReplay /\ InitFetch /\ InitSched

NextParser ==
    \/ Connect
    \/ Close
    \/ Collect
    \/ \E p \in Payloads : ParseAndStore(p)

SpecParser == Init /\ [][NextParser]_vars

\* the tables a database file left by earlier runs can hold: rows of valid
\* elements, one per api_id
ValidRows == {Row(e) : e \in {x \in Elements : x.kind = "obj" /\ x.id > 0 /\ x.utcDate # ""}}

Tables ==
    {t \in SeqsUpTo(ValidRows, MaxId) :
        \A i, j \in DOMAIN t : t[i].api_id = t[j].api_id => i = j}

\* a parser constructed on an existing database file, given one payload
\* again and again
InitRepeat ==
    /\ InitRank
    /\ InitReplay
    /\ InitFetch
    /\ InitSched
    /\ txn = NoTxn
    /\ probe = NoProbe
    /\ conn = FALSE
    /\ disk \in Tables
    /\ view = disk
    /\ last = NoCall
    /\ thePayload \in Payloads

NextRepeat ==
    \/ Connect
    \/ Close
    \/ Collect
    \/ ParseAndStore(thePayload)

SpecRepeat == InitRepeat /\ [][NextRepeat]_vars

(***************************************************************************)
(* Claims about the MatchParser store.                                     *)
(***************************************************************************)
OnePerId(tbl) == \A i, j \in DOMAIN tbl : tbl[i].api_id = tbl[j].api_id => i = j

Kept(old, new) == \A i \in DOMAIN old : i \in DOMAIN new /\ new[i] = old[i]

\* C1: after every step the table holds at most one row per api_id, and a
\* parse_and_store call leaves every row that was stored before it as it was
\* (same utc_date, same json_data): the first row inserted for an id is kept.
C1_OnePerIdFirstKept ==
    [][/\ OnePerId(view') /\ OnePerId(disk')
       /\ last'.op = "parse" => Kept(view, view') /\ Kept(disk, disk')]_vars

\* C1 witness: a call was given an element whose id was stored with another
\* date or body, and returned
C1_Witness ==
    /\ last.op = "parse" /\ last.outcome = "ok" /\ last.clash
    /\ Len(view) >= 2

\* C2 (as amended): when parse_and_store is called twice in a row with the
\* same payload and the first call returned, the second call returns 0 and
\* the number of stored rows is the number before the first call plus the
\* count the first call returned.
C2_SecondCallAddsNothing ==
    (last.op = "parse" /\ last.rep = 2 /\ last.o1 = "ok") =>
        /\ last.outcome = "ok" /\ last.count = 0
        /\ Len(view) = last.b1 + last.c1 /\ disk = view

\* C2 as stated: the number of stored rows after the second call equals the
\* count returned by the first call.
C2_AsStated ==
    (last.op = "parse" /\ last.rep = 2 /\ last.o1 = "ok") =>
        /\ last.outcome = "ok" /\ last.count = 0
        /\ Len(view) = last.c1

\* C2 witness: the second call was given rows the first call inserted
C2_Witness ==
    /\ last.op = "parse" /\ last.rep = 2 /\ last.o1 = "ok"
    /\ last.c1 >= 2 /\ last.ignored >= 2

(***************************************************************************)
(* Specification and claims of the rating algorithms.                      *)
(***************************************************************************)
NextRank ==
    \E home \in Teams, away \in Teams, hs \in 0..MaxGoals, as \in 0..MaxGoals :
        home # away /\ RankMatch(home, away, hs, as)

SpecRank == Init /\ [][NextRank]_vars

\* the team names in the order the matches first refer to them, home before
\* away
RECURSIVE RefOrder(_, _)
RefOrder(matches, order) ==
    IF matches = <<>> THEN order
    ELSE LET has(o, n) == \E i \in DOMAIN o : o[i] = n
             m == Head(matches)
             o1 == IF has(order, m.home_team) THEN order ELSE Append(order, m.home_team)
             o2 == IF has(o1, m.away_team) THEN o1 ELSE Append(o1, m.away_team)
         IN RefOrder(Tail(matches), o2)

PositionIn(order, name) == CHOOSE i \in DOMAIN order : order[i] = name

\* ranking lists every item of dict d once, by key descending, items of equal
\* key in the order of first reference
RankedRight(ranking, d, key) ==
    LET refs == RefOrder(matchLog, <<>>)
    IN /\ Len(ranking) = Len(d)
       /\ Len(d) = Len(refs)
       /\ \A i \in DOMAIN d : \E j \in DOMAIN ranking : ranking[j] = d[i]
       /\ \A i, j \in DOMAIN ranking : ranking[i].name = ranking[j].name => i = j
       /\ \A i, j \in DOMAIN ranking :
             i < j => \/ ranking[i][key] > ranking[j][key]
                      \/ /\ ranking[i][key] = ranking[j][key]
                         /\ PositionIn(refs, ranking[i].name)
                               < PositionIn(refs, ranking[j].name)

C5_RankingsSortedStable ==
    /\ RankedRight(EloGetRankings(eloTeams), eloTeams, EloKey)
    /\ RankedRight(OsGetRankings(osTeams), osTeams, OsKey)

\* C5 witness: two drawn matches rated three teams and left them level, and
\* both rankings list them as the matches first referred to them, which is
\* not the order of their names
C5_Witness ==
    /\ Len(matchLog) = 2 /\ Len(eloTeams) = 3
    /\ \A i, j \in DOMAIN eloTeams : eloTeams[i].rating = eloTeams[j].rating
    /\ \A i, j \in DOMAIN osTeams : osTeams[i].mu = osTeams[j].mu
    /\ Names(EloGetRankings(eloTeams)) = <<"Liverpool", "Arsenal", "Chelsea">>
    /\ Names(OsGetRankings(osTeams)) = <<"Liverpool", "Arsenal", "Chelsea">>
    /\ matchLog[1].home_team = "Liverpool" /\ matchLog[1].away_team = "Arsenal"

(***************************************************************************)
(* Specification and claim of the league replay.                           *)
(***************************************************************************)
NextReplay ==
    \/ \E row \in Rows : ImportRow(row)
    \/ \E league_name \in DOMAIN LEAGUE_MAP : OnLeagueChanged(league_name)

SpecReplay == Init /\ [][NextReplay]_vars

DatesOf(history) == [i \in DOMAIN history |-> history[i].match_date]

NonDecreasing(dates) == \A i, j \in DOMAIN dates : i < j => dates[i] <= dates[j]

\* C4: after a league replay every stored match of the league has gone
\* through both rating algorithms, the dated ones in non-decreasing order of
\* their dates, and every team's snapshot history is non-decreasing in
\* match_date.  The replay of the code does not keep this.
C4_AsStated ==
    replay.op = "league" =>
        LET stored == SelectSeq(matchesTable, LAMBDA r : r.Div = replay.div)
            dated == SelectSeq(replay.applied, LAMBDA x : x # NoDate)
        IN /\ Len(replay.applied) = Len(stored)
           /\ Len(matchLog) = Len(stored)
           /\ NonDecreasing(dated)
           /\ \A i \in DOMAIN tmTeams : NonDecreasing(DatesOf(tmTeams[i].match_info))

(***************************************************************************)
(* Specification and claims of the FetchWorker.                            *)
(***************************************************************************)
NextFetch ==
    \/ FetchStart
    \/ \E out \in Outcomes : FetchAttempt(out)

SpecFetch == Init /\ [][NextFetch]_vars

C10_AsStated ==
    (fw.pc = "finished" /\ fw.exhausted /\ fw.only429) =>
        /\ \E i \in DOMAIN fw.signals :
              fw.signals[i] = Signal("error", "rate_limit", HeaderOr(fw.lastOut.remaining),
                                     HeaderOr(fw.lastOut.reset))
        /\ \A i \in DOMAIN fw.signals : fw.signals[i].sig # "data"

(***************************************************************************)
(* Specifications and claims of the ingestion scheduler.                   *)
(***************************************************************************)
\* the steps of the scheduler's own loop
SchedStep == WindowTop \/ CompTop \/ BeginWait \/ Tick \/ Timeout \/ FetchDone \/ Delay

NextSched ==
    \/ SchedStart
    \/ SchedStop
    \/ SchedStep
    \/ \E out \in SchedOutcomes : FetchAttempt(out)

SpecSched == Init /\ [][NextSched]_vars

\* the scheduler's loop keeps running; the feed and the caller of stop() owe
\* nothing
SpecSchedLive == SpecSched /\ WF_vars(SchedStep)

AllAttempted == sched.attempted = NumWindows * NumCompetitions

\* C6: a competition is marked TimedOut exactly when its wait has lasted
\* WaitLimit ticks without a signal, never earlier and never later; the
\* scheduler then goes on to the next competition, and a running scheduler
\* always reaches a terminal state, however many fetches stay silent.
C6_TimedOutThenProceeds ==
    /\ [](sched.pos = "waiting" => sched.waited <= WaitLimit)
    /\ [][(sched'.status = "TimedOut" /\ sched.status # "TimedOut") =>
             /\ sched.pos = "waiting" /\ sched.waited = WaitLimit /\ fw.pc = "running"
             /\ sched'.pos = "delay" /\ sched'.state = "Running"]_vars
    /\ [][(sched.pos = "delay" /\ sched'.pos # "delay") =>
             sched'.pos = "comp_top" /\ sched'.comp = sched.comp + 1]_vars
    /\ (sched.state = "Running") ~> (sched.state \in {"AllDone", "Stopped"})

\* C6 witness: a run that ended AllDone although every fetch stayed silent
C6_Witness ==
    /\ sched.state = "AllDone"
    /\ sched.nTimedOut = NumWindows * NumCompetitions
    /\ AllAttempted

\* the fetch ended with a 403, or with a 429 after the retries were used up
FatalOutcome ==
    \/ fw.lastOut.kind = "response" /\ fw.lastOut.status = 403
    \/ fw.exhausted /\ fw.lastOut.kind = "response" /\ fw.lastOut.status = 429

\* C7: a fetch that ends with a 403 or with a 429 that outlasted the retries
\* marks its competition Errored and leaves the run Running; a run ends
\* AllDone only with every competition of every window attempted, there is
\* no error state, and a run that is not stopped reaches AllDone.
C7_FatalOnlyForCompetition ==
    /\ [][(/\ sched.pos = "waiting" /\ sched'.pos # "waiting" /\ fw.pc = "finished"
           /\ FatalOutcome) =>
             /\ sched'.status = "Errored" /\ sched'.pos = "delay"
             /\ sched'.state = "Running"]_vars
    /\ [](sched.state = "AllDone" => AllAttempted)
    /\ [](sched.state \in {"Idle", "Running", "AllDone", "Stopped"})
    /\ (sched.state = "Running") ~> (sched.state = "AllDone" \/ sched.stopFlag)

\* C7 witness: a run that ended AllDone after a 403, an exhausted 429 and a
\* stored record
C7_Witness ==
    /\ sched.state = "AllDone"
    /\ sched.fatal = {"permission", "request_failed"}
    /\ sched.status = "Completed" /\ sched.progress = 1 /\ Len(disk) = 1
    /\ AllAttempted

\* C8: once stop() was called no window and no fetch is started; a wait in
\* flight ends only by the signal of its fetch or by its timeout; the run
\* reaches Stopped, and Stopped holds no batch-scoped resource.
C8_StopIsCooperative ==
    /\ [][sched.stopFlag =>
             /\ sched'.stopFlag
             /\ sched'.attempted = sched.attempted
             /\ sched'.windowsStarted = sched.windowsStarted]_vars
    /\ [][(sched.stopFlag /\ sched.pos = "waiting" /\ sched'.pos # "waiting") =>
             \/ sched'.status \in {"Completed", "Errored"} /\ fw.pc = "finished"
             \/ sched'.status = "TimedOut" /\ sched.waited = WaitLimit]_vars
    /\ [](sched.state = "Stopped" => ~sched.resources /\ ~conn)
    /\ sched.stopFlag ~> (sched.state = "Stopped")

\* C8 witness: stop() came during a wait, the wait ran to its timeout, and the
\* run ended Stopped with competitions left
C8_Witness ==
    /\ sched.state = "Stopped"
    /\ sched.stoppedAt = "waiting" /\ sched.status = "TimedOut"
    /\ ~sched.resources /\ ~conn
    /\ sched.attempted = 1

\* C11: a 403 response ends the run at once: no attempt follows a 403, the
\* run that met it has emitted one permission error and then finished, no
\* data, and a 403 to the first attempt leaves the run with exactly one
\* attempt.
C11_ForbiddenNotRetried ==
    /\ ~(fw.cause.kind = "response" /\ fw.cause.status = 403)
    /\ (fw.lastOut.kind = "response" /\ fw.lastOut.status = 403) =>
          /\ fw.pc = "finished"
          /\ fw.signals = <<ErrorSignal("permission"), FinishedSignal>>
          /\ fw.cause = NoOutcome => fw.attempts = 1

\* C11 witness: a run whose first attempt met a 403
C11_Witness ==
    /\ fw.pc = "finished" /\ fw.attempts = 1
    /\ fw.lastOut = Response(403, "", "", "")
    /\ Len(fw.signals) = 2 /\ fw.signals[1].kind = "permission"


(***************************************************************************)
(* Claims on the parser's failures, counts and connection.                 *)
(***************************************************************************)
\* C12: the rows an earlier parse_and_store call committed are still stored,
\* unchanged, after every later step: a call that fails (no connection,
\* malformed JSON, a malformed element part-way, a locked database) leaves
\* the committed table exactly as it was, and connect and close (the
\* parser's part of a stop) drop no committed row.
C12_CommittedRowsKept ==
    [][/\ Kept(disk, disk')
       /\ (last'.op = "parse" /\ last'.outcome # "ok") => disk' = disk]_vars

\* C12 witness: a call failed part-way after inserting a row, while rows of
\* an earlier call were committed
C12_Witness ==
    /\ last.op = "parse" /\ last.outcome = "AttributeError"
    /\ Len(disk) >= 1 /\ Len(view) > Len(disk)


(***************************************************************************)
(* Specification and claims of MatchDataManager.get_matches.  The manager  *)
(* is constructed with or without a connection, on a database with or      *)
(* without the matches table.                                              *)
(***************************************************************************)
MaxLimit == 2

FilterKeys == {"Div", "HomeTeam"}

FilterValues == [Div |-> {"E0", "D1", "SP1"}, HomeTeam |-> {"Arsenal", "Chelsea"}]

\* the filters dicts of a query
FiltersOf(keys) == {f \in [keys -> {"E0", "D1", "SP1", "Arsenal", "Chelsea"}] :
                      \A k \in keys : f[k] \in FilterValues[k]}

Filters == UNION {FiltersOf(keys) : keys \in SUBSET FilterKeys}

Limits == {NoLimit} \cup 0..MaxLimit

InitQuery ==
    /\ InitParser /\ InitRank /\ InitFetch /\ InitSched
    /\ matchesTable = <<>>
    /\ tmTeams = <<>>
    /\ tmLast = NoTmCall
    /\ replay = NoReplay
    /\ imp = NoImport
    /\ \E c \in BOOLEAN, t \in BOOLEAN :
          dm = [connected |-> c, hasTable |-> t, query |-> NoQuery]

NextQuery ==
    \/ \E row \in Rows : ImportRow(row)
    \/ \E filters \in Filters, limit \in Limits : GetMatchesCall(filters, limit)

SpecQuery == InitQuery /\ [][NextQuery]_vars

\* the stored rows that pass the filters, ascending by date, the first n of
\* them under a limit n
Expected(filters, limit) ==
    LET all == OrderByDate(SelectSeq(matchesTable, LAMBDA r : Meets(r, filters)), <<>>)
    IN IF limit = NoLimit THEN all ELSE Prefix(all, limit)

\* C13 as stated: a get_matches call on a reachable store returns without
\* raising exactly the stored rows whose filtered fields all equal the given
\* values, ascending by date, all of them with limit=None and the n earliest
\* with a limit n.
C13_AsStated ==
    (dm.query.op = "get_matches" /\ dm.connected /\ dm.hasTable) =>
        /\ ~dm.query.raised
        /\ dm.query.rows = Expected(dm.query.filters, dm.query.limit)

\* C14 as stated: a get_matches call on an unreachable store (no connection,
\* or a query that fails) returns the empty list and does not raise, for
\* every filter and every limit.
C14_AsStated ==
    (dm.query.op = "get_matches" /\ (~dm.connected \/ ~dm.hasTable)) =>
        /\ ~dm.query.raised
        /\ dm.query.rows = <<>>


\* the parser with the probe on
InitProbe ==
    /\ InitRank /\ InitReplay /\ InitFetch /\ InitSched
    /\ txn = NoTxn
    /\ probe = [NoProbe EXCEPT !.on = TRUE]
    /\ conn = FALSE
    /\ disk = <<>>
    /\ view = <<>>
    /\ last = NoCall
    /\ thePayload = EmptyPayload

SpecProbe == InitProbe /\ [][NextParser]_vars

\* C15 as stated: the count a parse_and_store call returns is the number of
\* rows the call added to the table, and it is the number of ids, not stored
\* before, of the elements that carry an integer id and a non-empty utcDate.
C15_AsStated ==
    (last.op = "parse" /\ last.outcome = "ok") =>
        /\ last.count = Len(view) - last.before
        /\ last.count = probe.eligible


C17_AsStated ==
    (last.op = "parse" /\ conn) =>
        /\ probe.kind = "notjson" =>
              /\ last.outcome = "ValueError"
              /\ Len(view) = last.before /\ Len(disk) = probe.dbefore
        /\ probe.kind = "nomatches" =>
              /\ last.outcome = "ok" /\ last.count = 0
              /\ Len(view) = last.before /\ Len(disk) = probe.dbefore
        /\ (probe.kind = "valid" /\ probe.pk \in {"notjson", "nomatches"}) =>
              /\ last.outcome = "ok" /\ last.count = Len(view) - last.before


(***************************************************************************)
(* Specification and claims of the TeamManager.                            *)
(***************************************************************************)
OtherElo == 1600

\* the keyword arguments the callers of create_team pass: none, a rating, or
\* a league code (main_window, test_league_teams)
KwargsSets ==
    {NoKwargs, [k \in {"elo"} |-> OtherElo]} \cup {[k \in {"league"} |-> c] : c \in {"E0", "SP1"}}

\* the names the callers of the registry use
TmNames == {"Arsenal", "Chelsea"}

NextTeams ==
    \/ \E name \in TmNames, kwargs \in KwargsSets : CreateTeamCall(name, kwargs)
    \/ \E name \in TmNames : DeleteTeam(name)
    \/ ClearAllTeamsCall
    \/ \E name \in TmNames : IncrementMatchCountCall(name)
    \/ \E name \in TmNames : AddMatchInfoCall(name, 1)
    \/ \E name \in TmNames : ChangeReturnedList(name)
    \/ \E name \in TmNames, k \in 1..MaxCount : ChangeReturnedElement(name, k, OtherElo)
    \/ \E name \in TmNames : UpdateTeamRating(name, OtherElo)
    \/ \E league_name \in DOMAIN LEAGUE_MAP : GetTeamsByLeague(league_name)

SpecTeams == Init /\ [][NextTeams]_vars

\* C18 as stated: a create_team call with a name that is registered returns
\* the existing team with is_new False and leaves the registry as it was
\* (league, elo, mu, sigma, match count and history of every team), and the
\* registry never holds two teams of one name.
C18_AsStated ==
    /\ \A i, j \in DOMAIN tmTeams : tmTeams[i].name = tmTeams[j].name => i = j
    /\ (tmLast.op = "create_team" /\ HasKey(tmLast.before, tmLast.name)) =>
          /\ ~tmLast.raised /\ ~tmLast.result
          /\ tmTeams = tmLast.before

\* C19 as stated: create_team(name, league=code) with a new name registers a
\* team whose league is code, and get_teams_by_league returns (does not
\* raise).
C19_AsStated ==
    /\ (tmLast.op = "create_team" /\ "league" \in tmLast.keys
          /\ ~HasKey(tmLast.before, tmLast.name)) =>
          /\ ~tmLast.raised /\ tmLast.result
          /\ HasKey(tmTeams, tmLast.name)
          /\ Lookup(tmTeams, tmLast.name).league = tmLast.league
    /\ tmLast.op = "get_teams_by_league" => ~tmLast.raised


\* C20: after a league selection the match count of every registered team is
\* the number of matches the selection processed in which the team is the
\* home or the away side.
C20_CountsOfSelection ==
    replay.op = "league" =>
        \A i \in DOMAIN tmTeams :
            tmTeams[i].match_count =
                Cardinality({k \in DOMAIN matchLog :
                                \/ matchLog[k].home_team = tmTeams[i].name
                                \/ matchLog[k].away_team = tmTeams[i].name})

\* C20, its case: after a league selection a team is registered
C20_TeamRegistered ==
    replay.op = "league" /\ tmTeams # <<>>


(***************************************************************************)
(* Claims on the snapshot histories of the teams.                          *)
(***************************************************************************)
\* the snapshots of a history that carry the id of a match
SnapshotsOf(tm, name, match_id) ==
    IF ~HasKey(tm, name) THEN 0
    ELSE LET history == Lookup(tm, name).match_info
         IN Cardinality({j \in DOMAIN history : history[j].match_id = match_id})

\* C21 as stated: after a league replay the home team and the away team of
\* every match the replay was given have exactly one snapshot with that
\* match's id in their history, and a caller that changes the list
\* get_match_info returned, or an element of it, leaves every stored history
\* as it was.
C21_AsStated ==
    /\ replay.op = "league" =>
          \A k \in DOMAIN replay.fetched :
              LET m == replay.fetched[k]
              IN /\ SnapshotsOf(tmTeams, m.HomeTeam, RowId(m)) = 1
                 /\ SnapshotsOf(tmTeams, m.AwayTeam, RowId(m)) = 1
    /\ tmLast.op \in {"get_match_info, list changed", "get_match_info, element changed"} =>
          tmTeams = tmLast.before


\* C22: increment_match_count(name) raises nothing; for a name that is not
\* registered it returns False and leaves the registry as it was (no team
\* created, no count changed); for a registered name it returns True, that
\* team's count is one more, and every other team and every other field is
\* as it was.
C22_IncrementLocal ==
    tmLast.op = "increment_match_count" =>
        /\ ~tmLast.raised
        /\ tmLast.result = HasKey(tmLast.before, tmLast.name)
        /\ DOMAIN tmTeams = DOMAIN tmLast.before
        /\ \A i \in DOMAIN tmTeams :
              tmTeams[i] = IF tmLast.before[i].name = tmLast.name
                           THEN [tmLast.before[i] EXCEPT !.match_count = @ + 1]
                           ELSE tmLast.before[i]

\* C22 witness: the call was given a name that is not registered while a
\* team with a counted match is
C22_Witness ==
    /\ tmLast.op = "increment_match_count" /\ ~tmLast.result
    /\ ~HasKey(tmTeams, tmLast.name)
    /\ \E i \in DOMAIN tmTeams : tmTeams[i].match_count >= 1

(***************************************************************************)
(* Claims of one Elo match.                                                *)
(***************************************************************************)
\* the rating get_team_rating returns for name on dict d, in thousandths
RatingBefore(d, name) ==
    IF HasKey(d, name) THEN Lookup(d, name).rating ELSE InitialRating * 1000

\* C23: a drawn match between two distinct teams moves the two Elo ratings
\* toward each other: the higher one does not rise, the lower one does not
\* fall, the gap does not grow and does not change sign, equal ratings stay
\* as they are, and each rating changes by K * (0.5 - expected), K = 30.
C23_DrawConverges ==
    [][ LET m == matchLog'[Len(matchLog')]
            rh == RatingBefore(eloTeams, m.home_team)
            ra == RatingBefore(eloTeams, m.away_team)
            nh == Lookup(eloTeams', m.home_team).rating
            na == Lookup(eloTeams', m.away_team).rating
            eh == ExpectedResult(rh, ra)
        IN (Len(matchLog') = Len(matchLog) + 1 /\ m.home_score = m.away_score) =>
              /\ m.home_team # m.away_team
              /\ rh >= ra => (nh <= rh /\ na >= ra /\ nh - na <= rh - ra /\ nh - na >= 0)
              /\ rh <= ra => (nh >= rh /\ na <= ra /\ na - nh <= ra - rh /\ na - nh >= 0)
              /\ rh = ra => (nh = rh /\ na = ra)
              /\ nh - rh = 30 * (500 - eh)
              /\ na - ra = 30 * (500 - (1000 - eh))
              /\ KFactor = 30
      ]_vars

\* C23 witness: a decisive match set two teams apart and the draw that
\* followed between the same two teams moved both ratings, the gap smaller
\* than before and of the same sign
C23_Witness ==
    /\ Len(matchLog) = 2
    /\ matchLog[1].home_score > matchLog[1].away_score
    /\ matchLog[2].home_score = matchLog[2].away_score
    /\ matchLog[2].home_team = matchLog[1].home_team
    /\ matchLog[2].away_team = matchLog[1].away_team
    /\ LET one == EloProcessAll(SubSeq(matchLog, 1, 1), FreshTeams)
           gap(d) == Lookup(d, matchLog[1].home_team).rating
                        - Lookup(d, matchLog[1].away_team).rating
       IN gap(one) > 0 /\ gap(eloTeams) > 0 /\ gap(eloTeams) < gap(one)

(***************************************************************************)
(* Claim of one OpenSkill match.                                           *)
(***************************************************************************)
\* the rating get_team_rating returns for name on dict d
OsRatingBefore(d, name) ==
    IF HasKey(d, name) THEN Lookup(d, name)
    ELSE [name |-> name, mu |-> InitialMu, sigma |-> InitialSigma]

\* C24: OpenSkillAlgorithm.process_match rates the pair (home rating, away
\* rating) with ranks (1, 2) for a home win, (2, 1) for an away win and
\* (1, 1) for equal goals, stores the first returned rating under the home
\* team and the second under the away team, and leaves every other team's
\* rating as it was.
C24_RanksAndOrder ==
    [][ LET m == matchLog'[Len(matchLog')]
            ranks == IF m.home_score > m.away_score THEN <<1, 2>>
                     ELSE IF m.home_score < m.away_score THEN <<2, 1>>
                     ELSE <<1, 1>>
            rated == OsRate(OsRatingBefore(osTeams, m.home_team),
                            OsRatingBefore(osTeams, m.away_team), ranks)
            stored(name) == [mu |-> Lookup(osTeams', name).mu,
                             sigma |-> Lookup(osTeams', name).sigma]
        IN Len(matchLog') = Len(matchLog) + 1 =>
              /\ stored(m.home_team) = rated[1]
              /\ stored(m.away_team) = rated[2]
              /\ \A i \in DOMAIN osTeams :
                    osTeams[i].name \notin {m.home_team, m.away_team} =>
                        osTeams'[i] = osTeams[i]
      ]_vars

\* C24 witness: a home win and then an away win were rated; the home team
\* gained mu in the first match and lost mu in the second
C24_Witness ==
    /\ Len(matchLog) = 2
    /\ matchLog[1].home_score > matchLog[1].away_score
    /\ matchLog[2].home_score < matchLog[2].away_score
    /\ matchLog[2].home_team # matchLog[1].home_team
    /\ matchLog[2].away_team # matchLog[1].away_team
    /\ matchLog[2].home_team # matchLog[1].away_team
    /\ Lookup(osTeams, matchLog[1].home_team).mu > InitialMu
    /\ Lookup(osTeams, matchLog[1].away_team).mu < InitialMu
    /\ Lookup(osTeams, matchLog[2].home_team).mu < InitialMu

(***************************************************************************)
(* What the windows compute from a rating for display.  mu and sigma are   *)
(* in thousandths, as in the rating algorithms.                            *)
(***************************************************************************)
MaxMuOffset == 12
MaxSigmaSteps == 8

\* ratings around the initial mu, a hundredth apart
MuValues == {InitialMu + 10 * k : k \in (0 - MaxMuOffset)..MaxMuOffset}

\* sigma from 0.5 upward in halves, and the initial sigma
SigmaValues == {500 * k : k \in 1..MaxSigmaSteps} \cup {InitialSigma}

\* int(x) of Python for x given in thousandths: the fraction is cut off
IntOf(x) == IF x >= 0 THEN x \div 1000 ELSE 0 - ((0 - x) \div 1000)

\* round(num / den) of Python for den > 0: to the nearest integer, a half to
\* the even neighbour
RoundHalfEven(num, den) ==
    LET q == num \div den
        r == num % den
    IN IF 2 * r < den THEN q
       ELSE IF 2 * r > den THEN q + 1
       ELSE IF q % 2 = 0 THEN q ELSE q + 1

\* score = int(mu_value * 25)
Score(mu) == IntOf(mu * 25)

\* min_sigma = 1.5, in thousandths
MinSigma == 1500

\* round((1 / sigma_value) / (1 / min_sigma) * 100), the number before the
\* percent sign
StabilityMain(sigma) == RoundHalfEven(MinSigma * 100, sigma)

\* TeamInfoDialog._calculate_stability() for a team of this mu and sigma, in
\* hundredths of a percent
CalculateStability(mu, sigma) ==
    IF mu <= 0 THEN 0
    ELSE LET stability == ((mu - sigma) * 10000) \div mu
         IN IF stability < 0 THEN 0 ELSE IF stability > 10000 THEN 10000 ELSE stability

\* the body of the loop of load_openskill_rankings for one team: its row of
\* the ranking table
LoadOpenskillRow ==
    /\ shown' = [shown EXCEPT !.op = "row", !.score = Score(shown.mu),
                              !.stability = StabilityMain(shown.sigma)]
    /\ UNCHANGED <<eloTeams, osTeams, matchLog, parserVars, replayVars, fetchVars, schedVars>>

\* the team dialog computes the stability it shows
ShowTeamDialog ==
    /\ shown' = [shown EXCEPT !.op = "dialog",
                              !.dialog = CalculateStability(shown.mu, shown.sigma)]
    /\ UNCHANGED <<eloTeams, osTeams, matchLog, parserVars, replayVars, fetchVars, schedVars>>

InitDisplay ==
    /\ InitParser /\ InitAlgorithms /\ InitReplay /\ InitFetch /\ InitSched
    /\ \E mu \in MuValues, sigma \in SigmaValues :
          shown = [NoShown EXCEPT !.mu = mu, !.sigma = sigma]

NextDisplay ==
    \/ LoadOpenskillRow
    \/ ShowTeamDialog

SpecDisplay == InitDisplay /\ [][NextDisplay]_vars

C26_AsStated ==
    LET expected(sigma) == RoundHalfEven(150000, sigma)
    IN /\ expected(1500) = 100 /\ expected(3000) = 50
       /\ \A s1, s2 \in SigmaValues : s1 <= s2 => expected(s1) >= expected(s2)
       /\ \A s \in SigmaValues : s < 1500 => expected(s) > 100
       /\ shown.op = "row" => shown.stability = expected(shown.sigma)
       /\ shown.op = "dialog" => shown.dialog = 100 * expected(shown.sigma)

(***************************************************************************)
(* SQLiteImporter.import_csv: a CSV file is the sequence of its data rows. *)
(* A Date cell is written in one of the forms the importer tries           *)
(* ("12/08/2017", "12/08/17"), in a form it cannot parse ("2017-08-12"),   *)
(* or is empty.                                                            *)
(***************************************************************************)
MaxFileLen == 2

CsvDate(day, form) == [day |-> day, form |-> form]

CsvDates ==
    {CsvDate(day, form) : day \in 0..MaxDate, form \in {"dd/mm/yyyy", "dd/mm/yy"}}
        \cup {CsvDate(0, "yyyy-mm-dd"), CsvDate(0, "")}

\* the timestamp import_csv makes of a Date cell: None for an empty cell and
\* for a cell no format parses
ParseDate(date_str) ==
    IF date_str.form \in {"dd/mm/yyyy", "dd/mm/yy"} THEN date_str.day ELSE NoDate

CsvRows ==
    { [Div |-> "E0", Date |-> date, HomeTeam |-> f.HomeTeam, AwayTeam |-> f.AwayTeam,
       FTHG |-> f.FTHG, FTAG |-> f.FTAG] : date \in CsvDates, f \in Fixtures }

CsvFiles == UNION {[1..n -> CsvRows] : n \in 1..MaxFileLen}

\* the row import_csv binds to its INSERT for a CSV row
DataOf(row) == [row EXCEPT !.Date = ParseDate(row.Date)]

\* the loop of import_csv over the rows of the file from row i on: INSERT OR
\* IGNORE, then changes() tells whether the row was stored
RECURSIVE ImportLoop(_, _, _)
ImportLoop(file, i, st) ==
    IF i > Len(file) THEN st
    ELSE LET data == DataOf(file[i])
         IN IF Conflicts(st.tbl, data)
            THEN ImportLoop(file, i + 1, [st EXCEPT !.skipped_rows = @ + 1])
            ELSE ImportLoop(file, i + 1,
                     [st EXCEPT !.tbl = Append(@, [id |-> Len(st.tbl) + 1] @@ data),
                                !.written = Append(@, file[i].Date),
                                !.imported_rows = @ + 1])

\* import_csv(csv_file_path) on a file that exists and can be read
ImportCsv(file) ==
    /\ Len(matchesTable) < MaxRows
    /\ LET end == ImportLoop(file, 1, [tbl |-> matchesTable, written |-> imp.written,
                                        imported_rows |-> 0, skipped_rows |-> 0])
       IN /\ matchesTable' = end.tbl
          /\ imp' = [op |-> "import_csv", file |-> file, before |-> matchesTable,
                     success |-> TRUE, total_rows |-> Len(file),
                     imported_rows |-> end.imported_rows,
                     skipped_rows |-> end.skipped_rows, written |-> end.written]
    /\ dm' = [dm EXCEPT !.hasTable = TRUE]
    /\ UNCHANGED <<tmTeams, tmLast, replay, parserVars, rankVars, fetchVars, schedVars>>

\* import_csv on a path where no file is: the error result, nothing stored
ImportMissingFile ==
    /\ imp' = [NoImport EXCEPT !.op = "import_csv", !.before = matchesTable,
                               !.written = imp.written]
    /\ UNCHANGED <<matchesTable, tmTeams, tmLast, replay, dm, parserVars, rankVars, fetchVars,
                   schedVars>>

NextImport ==
    \/ \E file \in CsvFiles : ImportCsv(file)
    \/ ImportMissingFile

SpecImport == Init /\ [][NextImport]_vars

\* row of a CSV file is stored in table tbl: a row of its league, date and
\* teams is there
Stored(tbl, row) ==
    \E i \in DOMAIN tbl :
        /\ tbl[i].Div = row.Div /\ tbl[i].Date = ParseDate(row.Date)
        /\ tbl[i].HomeTeam = row.HomeTeam /\ tbl[i].AwayTeam = row.AwayTeam

\* C27 as stated: the table never holds two rows of one CSV match (Div, Date
\* as written, HomeTeam, AwayTeam); a file whose rows are all stored already
\* imports 0 rows and reports every row as skipped; on success imported_rows +
\* skipped_rows = total_rows; for every row, also one whose date is empty or
\* cannot be parsed.
C27_AsStated ==
    /\ Len(imp.written) = Len(matchesTable) =>
          \A i, j \in DOMAIN matchesTable :
              (/\ i < j
               /\ matchesTable[i].Div = matchesTable[j].Div
               /\ matchesTable[i].HomeTeam = matchesTable[j].HomeTeam
               /\ matchesTable[i].AwayTeam = matchesTable[j].AwayTeam)
                  => imp.written[i] # imp.written[j]
    /\ (imp.op = "import_csv" /\ imp.success) =>
          /\ imp.imported_rows + imp.skipped_rows = imp.total_rows
          /\ (\A k \in DOMAIN imp.file : Stored(imp.before, imp.file[k])) =>
                (imp.imported_rows = 0 /\ imp.skipped_rows = imp.total_rows)

(***************************************************************************)
(* Claim of the signals of a FetchWorker run.                              *)
(***************************************************************************)
\* every HTTP attempt ends: session.get is given timeout=(5, 30), and the
\* waits between retries are finite
SpecFetchLive == SpecFetch /\ WF_vars(\E out \in Outcomes : FetchAttempt(out))

RECURSIVE SumRatings(_)
SumRatings(d) == IF d = <<>> THEN 0 ELSE Head(d).rating + SumRatings(Tail(d))

NameSet(d) == {d[i].name : i \in DOMAIN d}

\* C30: after a league replay the registered names are the names each
\* algorithm rates, every registered team carries the elo, mu and sigma the
\* algorithm states hold for its name, and the last snapshot of its history
\* carries the values the team had after that match.
C30_InStep ==
    replay.op = "league" =>
        /\ NameSet(tmTeams) = NameSet(eloTeams)
        /\ NameSet(tmTeams) = NameSet(osTeams)
        /\ \A i \in DOMAIN tmTeams :
              LET team == tmTeams[i]
                  history == team.match_info
              IN /\ team.elo = Lookup(eloTeams, team.name).rating
                 /\ team.mu = Lookup(osTeams, team.name).mu
                 /\ team.sigma = Lookup(osTeams, team.name).sigma
                 /\ history # <<>> =>
                       /\ history[Len(history)].elo = team.elo
                       /\ history[Len(history)].mu = team.mu
                       /\ history[Len(history)].sigma = team.sigma

\* C30, its case: a league replay has processed a match
C30_MatchProcessed ==
    replay.op = "league" /\ (matchLog # <<>> \/ tmTeams # <<>> \/ eloTeams # <<>>)

====
